---- MODULE Spec2Model ----
(***************************************************************************)
(* Connection lifecycle and CRUD access layer of the expense store         *)
(* (main.go): the lazily created, process-wide MongoDB client guarded by   *)
(* sync.Once, and the six store operations on the "expense" collection.    *)
(*                                                                         *)
(* Goroutines calling into the layer are the processes of Procs.  Every    *)
(* store operation starts with GetMongoClient(), which is modelled step    *)
(* by step (the Once fast path, its mutex, Connect, Ping, the assignment   *)
(* of clientInstance, the return); the rest of the operation is one        *)
(* request to the server and is one step.  The arguments of an operation   *)
(* are values local to the caller and are drawn when the request is made.  *)
(***************************************************************************)
EXTENDS Integers, Sequences, FiniteSets, TLC

(***************************************************************************)
(* Bounds of the model.                                                    *)
(***************************************************************************)
NumProcs == 2      \* goroutines calling into the layer
MaxOid   == 1      \* ObjectIDs are 0..MaxOid, 0 being the zero ObjectID
MaxList  == 3      \* longest list handed to CreateManyExpenses

Procs == 1..NumProcs

(***************************************************************************)
(* Values.                                                                 *)
(***************************************************************************)
NilObjectID == 0                       \* primitive.ObjectID{} (all zero bytes)
ObjectIDs   == 0..MaxOid
ExpenseIDs  == {"1d", "2d"}
Titles      == {"First expense"}
Amounts     == {350}                   \* hundredths: 3.50
\* A time.Time counts finer than the BSON datetime does (nanoseconds against
\* milliseconds); a tick is half a millisecond here, and the dates are an
\* instant on a millisecond and one between two.
TicksPerMs  == 2
Dates       == {0, 1}

NilClient == 0                         \* (*mongo.Client)(nil)

Nil            == "nil"
ConnectError   == "connect error"
PingError      == "ping error"
ErrNoDocuments == "mongo: no documents in result"
ErrEmptySlice  == "must provide at least one element in input slice"
DuplicateKey   == "E11000 duplicate key error"
CommandError   == "command error"
DecodeError    == "decode error"

\* type Expense struct
Expense == [ID : ObjectIDs, ExpenseID : ExpenseIDs, Title : Titles,
            Amount : Amounts, Date : Dates]

\* Expense{}
ZeroExpense == [ID |-> NilObjectID, ExpenseID |-> "", Title |-> "",
                Amount |-> 0, Date |-> 0]

RECURSIVE SeqsUpTo(_, _)
SeqsUpTo(S, n) ==
    IF n = 0 THEN {<<>>}
    ELSE LET shorter == SeqsUpTo(S, n - 1)
         IN  shorter \cup {Append(s, x) : s \in {t \in shorter : Len(t) = n - 1}, x \in S}

\* The lists handed to CreateManyExpenses: at most MaxList expenses, entered
\* at one instant.
ExpenseLists ==
    {list \in SeqsUpTo(Expense, MaxList) :
        \A i, j \in 1..Len(list) : list[i].Date = list[j].Date}

VARIABLES
    pc,                   \* where each goroutine is
    client,               \* the local "client" of the closure given to mongoOnce.Do
    acq,                  \* what GetMongoClient last returned to each goroutine
    clientInstance,       \* var clientInstance *mongo.Client
    clientInstanceError,  \* var clientInstanceError error
    mongoOnce,            \* var mongoOnce sync.Once: [done, m]
    connectCalls,         \* calls of mongo.Connect so far
    pingCalls,            \* calls of client.Ping so far
    pinged,               \* the clients whose Ping has returned nil
    coll,                 \* the documents of expenses.expense, in natural order
    last,                 \* the latest call into the layer that returned
    alive                 \* FALSE once an unrecovered panic has ended the process

vars == <<pc, client, acq, clientInstance, clientInstanceError, mongoOnce,
          connectCalls, pingCalls, pinged, coll, last, alive>>

onceVars == <<client, clientInstance, clientInstanceError, mongoOnce,
              connectCalls, pingCalls, pinged>>

NoAcq  == [client |-> NilClient, err |-> "none"]
NoVal  == <<>>
NoOp   == [kind |-> "none", arg |-> NoVal, matched |-> 0, acqErr |-> Nil,
           sent |-> FALSE, err |-> Nil, val |-> NoVal, cursor |-> "none"]

\* The expense of main(): its ID is primitive.NewObjectID(), its date time.Now().
MainExpense == [ID |-> 1, ExpenseID |-> "1d", Title |-> "First expense",
                Amount |-> 350, Date |-> 1]

\* The document an Expense is marshalled to, by its bson tags.  "_id" has no
\* omitempty, so a zero ID is written as it is; a BSON datetime holds
\* milliseconds.
Marshal(e) ==
    [_id |-> e.ID, expenseID |-> e.ExpenseID, title |-> e.Title,
     amount |-> e.Amount, date |-> e.Date - (e.Date % TicksPerMs)]

\* The collection outlives the process: it is empty at the start, or holds
\* the expense of main() from an earlier run.
InitialCollections == {<<>>, <<Marshal(MainExpense)>>}

Init ==
    /\ pc = [p \in Procs |-> "idle"]
    /\ client = [p \in Procs |-> NilClient]
    /\ acq = [p \in Procs |-> NoAcq]
    /\ clientInstance = NilClient
    /\ clientInstanceError = Nil
    /\ mongoOnce = [done |-> FALSE, m |-> 0]
    /\ connectCalls = 0
    /\ pingCalls = 0
    /\ pinged = {}
    /\ coll \in InitialCollections
    /\ last = NoOp
    /\ alive = TRUE

(***************************************************************************)
(* GetMongoClient.                                                         *)
(***************************************************************************)

\* GetMongoClientCall with a Once that lets a caller through as soon as some
\* goroutine has entered the closure.
GetMongoClientCallNoWait(p) ==
    /\ alive
    /\ pc[p] = "idle"
    /\ IF mongoOnce.done \/ mongoOnce.m # 0
       THEN /\ pc' = [pc EXCEPT ![p] = "acquired"]
            /\ acq' = [acq EXCEPT ![p] = [client |-> clientInstance,
                                          err |-> clientInstanceError]]
       ELSE /\ pc' = [pc EXCEPT ![p] = "doSlow"]
            /\ acq' = [acq EXCEPT ![p] = NoAcq]
    /\ UNCHANGED <<onceVars, coll, last, alive>>

\* A goroutine calls GetMongoClient (directly or at the head of a store
\* operation).  Once.Do reads done on its fast path: when it is set the call
\* goes through to the return statement, otherwise it enters doSlow.
GetMongoClientCall(p) ==
    /\ alive
    /\ pc[p] = "idle"
    /\ IF mongoOnce.done
       THEN /\ pc' = [pc EXCEPT ![p] = "acquired"]
            /\ acq' = [acq EXCEPT ![p] = [client |-> clientInstance,
                                          err |-> clientInstanceError]]
       ELSE /\ pc' = [pc EXCEPT ![p] = "doSlow"]
            /\ acq' = [acq EXCEPT ![p] = NoAcq]
    /\ UNCHANGED <<onceVars, coll, last, alive>>

\* OnceDoSlow without the second reading of done under the mutex.
OnceDoSlowNoRecheck(p) ==
    /\ alive
    /\ pc[p] = "doSlow"
    /\ mongoOnce.m = 0
    /\ pc' = [pc EXCEPT ![p] = "connect"]
    /\ mongoOnce' = [mongoOnce EXCEPT !.m = p]
    /\ UNCHANGED <<client, acq, clientInstance, clientInstanceError, connectCalls,
                   pingCalls, pinged, coll, last, alive>>

\* Once.doSlow: take the mutex, read done again; run the closure if it is
\* still unset, otherwise unlock and go on.
OnceDoSlow(p) ==
    /\ alive
    /\ pc[p] = "doSlow"
    /\ mongoOnce.m = 0
    /\ IF mongoOnce.done
       THEN /\ pc' = [pc EXCEPT ![p] = "return"]
            /\ UNCHANGED mongoOnce
       ELSE /\ pc' = [pc EXCEPT ![p] = "connect"]
            /\ mongoOnce' = [mongoOnce EXCEPT !.m = p]
    /\ UNCHANGED <<client, acq, clientInstance, clientInstanceError, connectCalls,
                   pingCalls, pinged, coll, last, alive>>

\* Connect with the error of mongo.Connect left unrecorded.
ConnectErrorDropped(p, ok) ==
    /\ alive
    /\ pc[p] = "connect"
    /\ connectCalls' = connectCalls + 1
    /\ client' = [client EXCEPT ![p] = IF ok THEN connectCalls + 1 ELSE NilClient]
    /\ pc' = [pc EXCEPT ![p] = "ping"]
    /\ UNCHANGED <<acq, clientInstance, clientInstanceError, mongoOnce, pingCalls,
                   pinged, coll, last, alive>>

\* client, err := mongo.Connect(...); if err != nil { clientInstanceError = err }
\* mongo.Connect returns a nil client together with its error.
Connect(p, ok) ==
    /\ alive
    /\ pc[p] = "connect"
    /\ connectCalls' = connectCalls + 1
    /\ client' = [client EXCEPT ![p] = IF ok THEN connectCalls + 1 ELSE NilClient]
    /\ clientInstanceError' = IF ok THEN clientInstanceError ELSE ConnectError
    /\ pc' = [pc EXCEPT ![p] = "ping"]
    /\ UNCHANGED <<acq, clientInstance, mongoOnce, pingCalls, pinged, coll, last, alive>>

\* err = client.Ping(...); if err != nil { clientInstanceError = err }
\* Ping on a nil client dereferences it: the closure panics, and the deferred
\* calls of doSlow set done and release the mutex.
Ping(p, ok) ==
    /\ alive
    /\ pc[p] = "ping"
    /\ pingCalls' = pingCalls + 1
    /\ IF client[p] = NilClient
       THEN /\ pc' = [pc EXCEPT ![p] = "panic"]
            /\ mongoOnce' = [done |-> TRUE, m |-> 0]
            /\ UNCHANGED <<clientInstanceError, pinged>>
       ELSE /\ pc' = [pc EXCEPT ![p] = "assign"]
            /\ clientInstanceError' = IF ok THEN clientInstanceError ELSE PingError
            /\ pinged' = IF ok THEN pinged \cup {client[p]} ELSE pinged
            /\ UNCHANGED mongoOnce
    /\ UNCHANGED <<client, acq, clientInstance, connectCalls, coll, last, alive>>

\* OnceReturn leaving done unset when an error was recorded, so that a later
\* call tries again.
OnceReturnRetryAfterError(p) ==
    /\ alive
    /\ pc[p] = "assign"
    /\ clientInstance' = client[p]
    /\ mongoOnce' = [done |-> (clientInstanceError = Nil), m |-> 0]
    /\ pc' = [pc EXCEPT ![p] = "return"]
    /\ UNCHANGED <<client, acq, clientInstanceError, connectCalls, pingCalls,
                   pinged, coll, last, alive>>

\* clientInstance = client; the closure returns; doSlow sets done and unlocks.
OnceReturn(p) ==
    /\ alive
    /\ pc[p] = "assign"
    /\ clientInstance' = client[p]
    /\ mongoOnce' = [done |-> TRUE, m |-> 0]
    /\ pc' = [pc EXCEPT ![p] = "return"]
    /\ UNCHANGED <<client, acq, clientInstanceError, connectCalls, pingCalls,
                   pinged, coll, last, alive>>

\* return clientInstance, clientInstanceError
GetMongoClientReturn(p) ==
    /\ alive
    /\ pc[p] = "return"
    /\ acq' = [acq EXCEPT ![p] = [client |-> clientInstance, err |-> clientInstanceError]]
    /\ pc' = [pc EXCEPT ![p] = "acquired"]
    /\ UNCHANGED <<onceVars, coll, last, alive>>

\* The panic leaves GetMongoClient and its caller; a caller up the stack
\* recovers and the goroutine goes on with other work.
Recover(p) ==
    /\ alive
    /\ pc[p] = "panic"
    /\ pc' = [pc EXCEPT ![p] = "idle"]
    /\ UNCHANGED <<onceVars, acq, coll, last, alive>>

\* Nobody recovers: the runtime ends the process.
Crash(p) ==
    /\ alive
    /\ pc[p] = "panic"
    /\ alive' = FALSE
    /\ UNCHANGED <<onceVars, pc, acq, coll, last>>

\* A caller that wanted the client only has it.
UseClient(p) ==
    /\ alive
    /\ pc[p] = "acquired"
    /\ pc' = [pc EXCEPT ![p] = "idle"]
    /\ last' = [kind |-> "GetMongoClient", arg |-> NoVal, matched |-> 0,
                acqErr |-> acq[p].err, sent |-> FALSE, err |-> acq[p].err,
                val |-> acq[p].client, cursor |-> "none"]
    /\ UNCHANGED <<onceVars, acq, coll, alive>>

(***************************************************************************)
(* The driver and the server: BSON encoding and the collection's commands. *)
(***************************************************************************)

\* Decode(&result)
Unmarshal(d) ==
    [ID |-> d._id, ExpenseID |-> d.expenseID, Title |-> d.title,
     Amount |-> d.amount, Date |-> d.date]

Matching(c, id) == {i \in 1..Len(c) : c[i].expenseID = id}

Min(S) == CHOOSE x \in S : \A y \in S : x <= y

Remove(c, i) == [j \in 1..(Len(c) - 1) |-> IF j < i THEN c[j] ELSE c[j + 1]]

\* collection.InsertOne: the driver adds an _id only to a document that has
\* none; the server refuses a second document with the same _id.
InsertOne(c, d) ==
    IF \E i \in 1..Len(c) : c[i]._id = d._id
    THEN [coll |-> c, err |-> DuplicateKey]
    ELSE [coll |-> Append(c, d), err |-> Nil]

\* collection.InsertMany, ordered: documents are inserted in the order of the
\* list up to the first one that is refused.
RECURSIVE InsertManyFrom(_, _)
InsertManyFrom(c, ds) ==
    IF ds = <<>> THEN [coll |-> c, err |-> Nil]
    ELSE LET r == InsertOne(c, Head(ds))
         IN  IF r.err # Nil THEN [coll |-> c, err |-> r.err]
             ELSE InsertManyFrom(r.coll, Tail(ds))

InsertMany(c, ds) ==
    IF ds = <<>> THEN [coll |-> c, err |-> ErrEmptySlice]
    ELSE InsertManyFrom(c, ds)

\* The fields of type Expense, which Decode fills in the order of the
\* document: _id, expenseID, title, amount, date.
NumFields == 5

\* Decode(&result) failing on the k-th field of d: the fields before it have
\* been written to result, the others are as Expense{} has them.
PartlyDecoded(d, k) ==
    [ID        |-> IF k > 1 THEN d._id ELSE NilObjectID,
     ExpenseID |-> IF k > 2 THEN d.expenseID ELSE "",
     Title     |-> IF k > 3 THEN d.title ELSE "",
     Amount    |-> IF k > 4 THEN d.amount ELSE 0,
     Date      |-> 0]

\* FindOne with a filter that selects every document.
FindOneFirstDocument(c, id) ==
    IF c = <<>>
    THEN [val |-> ZeroExpense, err |-> ErrNoDocuments]
    ELSE [val |-> Unmarshal(c[1]), err |-> Nil]

\* collection.FindOne(filter).Decode(&result), result being Expense{} before,
\* the driver reporting nothing but the absence of a document.
FindOne(c, id) ==
    IF Matching(c, id) = {}
    THEN [val |-> ZeroExpense, err |-> ErrNoDocuments]
    ELSE [val |-> Unmarshal(c[Min(Matching(c, id))]), err |-> Nil]

\* DeleteOne with a filter on a field no document has.
DeleteOneNoMatch(c, id) == c

\* DeleteOne deleting as DeleteMany does: every match.
DeleteOneEveryMatch(c, id) == SelectSeq(c, LAMBDA d : d.expenseID # id)

\* collection.DeleteOne(filter): the first match, if there is one.
DeleteOne(c, id) ==
    IF Matching(c, id) = {} THEN c ELSE Remove(c, Min(Matching(c, id)))

\* DeleteMany deleting as DeleteOne does.
DeleteManyFirstOnly(c) == IF c = <<>> THEN c ELSE Tail(c)

\* collection.DeleteMany(bson.D{{}})
DeleteMany(c) == <<>>

(***************************************************************************)
(* The store operations, from the return of GetMongoClient on.             *)
(***************************************************************************)

\* The operation returns to its caller.  matched counts the documents its
\* filter selected when the request was made (for CreateExpense those of the
\* expense's expenseID, for CreateManyExpenses all of the collection).
Returned(p, kind, arg, matched, sent, err, val, cursor) ==
    /\ last' = [kind |-> kind, arg |-> arg, matched |-> matched,
                acqErr |-> acq[p].err, sent |-> sent, err |-> err, val |-> val,
                cursor |-> cursor]
    /\ pc' = [pc EXCEPT ![p] = "idle"]
    /\ UNCHANGED <<onceVars, acq, alive>>

CreateExpense(p, expense, fault) ==
    /\ alive
    /\ pc[p] = "acquired"
    /\ LET n == Cardinality(Matching(coll, expense.ExpenseID))
       IN  IF acq[p].err # Nil
           THEN /\ coll' = coll
                /\ Returned(p, "CreateExpense", expense, n, FALSE, acq[p].err, NoVal, "none")
           ELSE IF fault
           THEN /\ coll' = coll
                /\ Returned(p, "CreateExpense", expense, n, TRUE, CommandError, NoVal, "none")
           ELSE LET r == InsertOne(coll, Marshal(expense))
                IN  /\ coll' = r.coll
                    /\ Returned(p, "CreateExpense", expense, n, TRUE, r.err, NoVal, "none")

CreateManyExpenses(p, list, fault) ==
    /\ alive
    /\ pc[p] = "acquired"
    /\ IF acq[p].err # Nil
       THEN /\ coll' = coll
            /\ Returned(p, "CreateManyExpenses", Len(list), Len(coll), FALSE, acq[p].err,
                        NoVal, "none")
       ELSE IF fault
       THEN /\ coll' = coll
            /\ Returned(p, "CreateManyExpenses", Len(list), Len(coll), TRUE, CommandError,
                        NoVal, "none")
       ELSE LET insertableList == [i \in 1..Len(list) |-> Marshal(list[i])]
                r == InsertMany(coll, insertableList)
            IN  /\ coll' = r.coll
                /\ Returned(p, "CreateManyExpenses", Len(list), Len(coll), TRUE, r.err,
                            NoVal, "none")

\* What can go wrong in GetExpensesByID: the FindOne command, or the decoding
\* of the at-th field of the document found.
FindOneFaults ==
    {[f |-> "none", at |-> 0], [f |-> "command", at |-> 0]}
    \cup {[f |-> "decode", at |-> k] : k \in 1..NumFields}

GetExpensesByID(p, id, fault) ==
    /\ alive
    /\ pc[p] = "acquired"
    /\ coll' = coll
    /\ LET n == Cardinality(Matching(coll, id))
       IN  IF acq[p].err # Nil
           THEN Returned(p, "GetExpensesByID", id, n, FALSE, acq[p].err, ZeroExpense, "none")
           ELSE IF fault.f = "command"
           THEN Returned(p, "GetExpensesByID", id, n, TRUE, CommandError, ZeroExpense, "none")
           ELSE IF fault.f = "decode" /\ n > 0
           THEN \* return result, err: result holds what was decoded so far
                Returned(p, "GetExpensesByID", id, n, TRUE, DecodeError,
                         PartlyDecoded(coll[Min(Matching(coll, id))], fault.at), "none")
           ELSE LET r == FindOne(coll, id)
                IN  Returned(p, "GetExpensesByID", id, n, TRUE, r.err, r.val, "none")

\* What can go wrong in GetAllIssues: Find itself, cur.Next before the at-th
\* document is fetched, or the decoding of the at-th document.
FindFaults(c) ==
    {[f |-> "none", at |-> 0], [f |-> "find", at |-> 0]}
    \cup {[f |-> "next", at |-> k] : k \in 1..(Len(c) + 1)}
    \cup {[f |-> "decode", at |-> k] : k \in 1..Len(c)}

NoFault == [f |-> "none", at |-> 0]

Decoded(c, n) == [i \in 1..n |-> Unmarshal(c[i])]

\* AllIssues without the test of len(issues).
AllIssuesEmptySuccess(c, fault) ==
    IF fault.f = "find"
    THEN [val |-> <<>>, err |-> CommandError, cursor |-> "none"]
    ELSE IF fault.f = "decode"
    THEN [val |-> Decoded(c, fault.at - 1), err |-> DecodeError, cursor |-> "open"]
    ELSE [val |-> IF fault.f = "next" THEN Decoded(c, fault.at - 1)
                  ELSE Decoded(c, Len(c)),
          err |-> Nil, cursor |-> "closed"]

\* GetAllIssues from collection.Find on: the issues and the error it returns,
\* and what has become of the cursor.
AllIssues(c, fault) ==
    IF fault.f = "find"
    THEN [val |-> <<>>, err |-> CommandError, cursor |-> "none"]
    ELSE IF fault.f = "decode"
    THEN \* return issues, err: the cursor is left as it is
         [val |-> Decoded(c, fault.at - 1), err |-> DecodeError, cursor |-> "open"]
    ELSE \* cur.Next returns false at the end of the cursor or on its error;
         \* cur.Close(); the length of issues decides the result
         LET issues == IF fault.f = "next" THEN Decoded(c, fault.at - 1)
                       ELSE Decoded(c, Len(c))
         IN  [val |-> issues,
              err |-> IF Len(issues) = 0 THEN ErrNoDocuments ELSE Nil,
              cursor |-> "closed"]

\* GetAllIssues taking the documents it reads out of the collection.
GetAllIssuesDraining(p, fault) ==
    /\ alive
    /\ pc[p] = "acquired"
    /\ IF acq[p].err # Nil
       THEN /\ coll' = coll
            /\ Returned(p, "GetAllIssues", fault.f, Len(coll), FALSE, acq[p].err, <<>>, "none")
       ELSE LET r == AllIssues(coll, fault)
            IN  /\ coll' = SubSeq(coll, Len(r.val) + 1, Len(coll))
                /\ Returned(p, "GetAllIssues", fault.f, Len(coll), TRUE, r.err, r.val, r.cursor)

GetAllIssues(p, fault) ==
    /\ alive
    /\ pc[p] = "acquired"
    /\ coll' = coll
    /\ IF acq[p].err # Nil
       THEN Returned(p, "GetAllIssues", fault.f, Len(coll), FALSE, acq[p].err, <<>>, "none")
       ELSE LET r == AllIssues(coll, fault)
            IN  Returned(p, "GetAllIssues", fault.f, Len(coll), TRUE, r.err, r.val, r.cursor)

\* DeleteExpense reporting ErrNoDocuments when DeleteOne deleted nothing.
DeleteExpenseNotFound(p, code, fault) ==
    /\ alive
    /\ pc[p] = "acquired"
    /\ LET n == Cardinality(Matching(coll, code))
       IN  IF acq[p].err # Nil
           THEN /\ coll' = coll
                /\ Returned(p, "DeleteExpense", code, n, FALSE, acq[p].err, NoVal, "none")
           ELSE IF fault
           THEN /\ coll' = coll
                /\ Returned(p, "DeleteExpense", code, n, TRUE, CommandError, NoVal, "none")
           ELSE /\ coll' = DeleteOne(coll, code)
                /\ Returned(p, "DeleteExpense", code, n, TRUE,
                            IF n = 0 THEN ErrNoDocuments ELSE Nil, NoVal, "none")

\* DeleteExpense without the check of the error GetMongoClient returned.
DeleteExpenseUnchecked(p, code, fault) ==
    /\ alive
    /\ pc[p] = "acquired"
    /\ LET n == Cardinality(Matching(coll, code))
       IN  IF fault
           THEN /\ coll' = coll
                /\ Returned(p, "DeleteExpense", code, n, TRUE, CommandError, NoVal, "none")
           ELSE /\ coll' = DeleteOne(coll, code)
                /\ Returned(p, "DeleteExpense", code, n, TRUE, Nil, NoVal, "none")

DeleteExpense(p, code, fault) ==
    /\ alive
    /\ pc[p] = "acquired"
    /\ LET n == Cardinality(Matching(coll, code))
       IN  IF acq[p].err # Nil
           THEN /\ coll' = coll
                /\ Returned(p, "DeleteExpense", code, n, FALSE, acq[p].err, NoVal, "none")
           ELSE IF fault
           THEN /\ coll' = coll
                /\ Returned(p, "DeleteExpense", code, n, TRUE, CommandError, NoVal, "none")
           ELSE /\ coll' = DeleteOne(coll, code)
                /\ Returned(p, "DeleteExpense", code, n, TRUE, Nil, NoVal, "none")

DeleteAll(p, fault) ==
    /\ alive
    /\ pc[p] = "acquired"
    /\ LET n == Len(coll)
       IN  IF acq[p].err # Nil
           THEN /\ coll' = coll
                /\ Returned(p, "DeleteAll", NoVal, n, FALSE, acq[p].err, NoVal, "none")
           ELSE IF fault
           THEN /\ coll' = coll
                /\ Returned(p, "DeleteAll", NoVal, n, TRUE, CommandError, NoVal, "none")
           ELSE /\ coll' = DeleteMany(coll)
                /\ Returned(p, "DeleteAll", NoVal, n, TRUE, Nil, NoVal, "none")

StoreOperation(p) ==
    \/ \E e \in Expense, fault \in BOOLEAN : CreateExpense(p, e, fault)
    \/ \E list \in ExpenseLists, fault \in BOOLEAN : CreateManyExpenses(p, list, fault)
    \/ \E id \in ExpenseIDs, fault \in FindOneFaults : GetExpensesByID(p, id, fault)
    \/ \E fault \in FindFaults(coll) : GetAllIssues(p, fault)
    \/ \E code \in ExpenseIDs, fault \in BOOLEAN : DeleteExpense(p, code, fault)
    \/ \E fault \in BOOLEAN : DeleteAll(p, fault)

Next ==
    \E p \in Procs :
        \/ GetMongoClientCall(p)
        \/ OnceDoSlow(p)
        \/ \E ok \in BOOLEAN : Connect(p, ok)
        \/ \E ok \in BOOLEAN : Ping(p, ok)
        \/ OnceReturn(p)
        \/ GetMongoClientReturn(p)
        \/ Recover(p)
        \/ Crash(p)
        \/ UseClient(p)
        \/ StoreOperation(p)

Spec == Init /\ [][Next]_vars

\* The Go scheduler lets every goroutine that can run do so in the end, and
\* mongo.Connect and Ping come back: a goroutine inside GetMongoClient takes
\* its next step, one waiting for the mutex of mongoOnce gets it once it
\* stays free, and one that has the client goes on.  Nothing makes a
\* goroutine call into the layer, and nothing makes a panic be recovered.
Fairness ==
    \A p \in Procs :
        /\ WF_vars(OnceDoSlow(p))
        /\ WF_vars(\E ok \in BOOLEAN : Connect(p, ok))
        /\ WF_vars(\E ok \in BOOLEAN : Ping(p, ok))
        /\ WF_vars(OnceReturn(p))
        /\ WF_vars(GetMongoClientReturn(p))
        /\ WF_vars(UseClient(p))

FairSpec == Spec /\ Fairness

(***************************************************************************)
(* Properties of GetMongoClient.                                           *)
(***************************************************************************)

Initializing(p) == pc[p] \in {"connect", "ping", "assign"}

Recorded == [client |-> clientInstance, err |-> clientInstanceError]

C2_FailureReturnedToEveryCaller ==
    \A p \in Procs :
        clientInstanceError # Nil =>
            /\ pc[p] # "panic"
            /\ pc[p] = "acquired" => acq[p].err = clientInstanceError

AttemptCompleted == pingCalls > 0 /\ \A p \in Procs : ~Initializing(p)

\* C3: once the initialization attempt has ended, the client and the error
\* recorded never change, Connect and Ping are not called again, nobody
\* enters the closure again, every call of GetMongoClient that returns from
\* then on returns the recorded pair, and after a failed attempt every
\* operation that returns returns the recorded error.
C3_OutcomePermanent ==
    [][AttemptCompleted =>
        /\ clientInstance' = clientInstance
        /\ clientInstanceError' = clientInstanceError
        /\ connectCalls' = connectCalls
        /\ pingCalls' = pingCalls
        /\ \A p \in Procs : pc'[p] \notin {"connect", "ping", "assign"}
        /\ \A p \in Procs :
              pc[p] # "acquired" /\ pc'[p] = "acquired" => acq'[p] = Recorded
        /\ \A p \in Procs :
              pc[p] = "acquired" /\ pc'[p] = "idle" /\ clientInstanceError # Nil
                  => last'.err = clientInstanceError
      ]_vars

\* After a failed Ping a store operation has returned the failure, and a
\* later call of GetMongoClient has returned it again.
C3_Witness ==
    /\ AttemptCompleted
    /\ clientInstanceError = PingError
    /\ last.kind = "DeleteAll"
    /\ last.err = PingError
    /\ \E p \in Procs : pc[p] = "acquired" /\ acq[p] = Recorded

(***************************************************************************)
(* Properties of the store operations.                                     *)
(***************************************************************************)

\* C4: a store operation whose call of GetMongoClient returned an error
\* returns that error, sends no request to the server and leaves the
\* collection as it was.
C4_AcquireFailureShortCircuits ==
    [][\A p \in Procs :
          ( /\ pc[p] = "acquired"
            /\ pc'[p] = "idle"
            /\ acq[p].err # Nil
            /\ last'.kind # "GetMongoClient" )
          => /\ last'.err = acq[p].err
             /\ ~last'.sent
             /\ coll' = coll
      ]_vars

\* DeleteExpense has returned the Ping failure and left in place the document
\* its filter selects.
C4_Witness ==
    /\ last.kind = "DeleteExpense"
    /\ last.err = PingError
    /\ ~last.sent
    /\ last.matched = 1
    /\ Matching(coll, last.arg) # {}

\* The fields of an Expense other than its ID.
Content(e) == [ExpenseID |-> e.ExpenseID, Title |-> e.Title,
               Amount |-> e.Amount, Date |-> e.Date]

\* C5: CreateExpense(e) followed by GetExpensesByID(e.ExpenseID) returns,
\* without an error, a value equal to e in expenseID, title, amount and date.
\* It is stated for the plainest case of the claim: e is transient, its date
\* is a whole number of milliseconds, no document carried its expenseID
\* before, and the server was reached.
C5_CreateThenFindRoundTrip ==
    ( /\ last.kind = "CreateExpense"
      /\ last.sent
      /\ last.err # CommandError
      /\ last.arg.ID = NilObjectID
      /\ last.arg.Date % TicksPerMs = 0
      /\ last.matched = 0 )
    => LET r == FindOne(coll, last.arg.ExpenseID)
       IN  r.err = Nil /\ Content(r.val) = Content(last.arg)

DeleteSucceeded == last.kind = "DeleteExpense" /\ last.sent /\ last.err = Nil

\* C6 as claimed: after a DeleteExpense(id) that succeeded, GetExpensesByID(id)
\* finds no document, whatever the collection held.
C6_DeleteThenFindNotFound ==
    DeleteSucceeded => FindOne(coll, last.arg).err = ErrNoDocuments

\* C6 as amended: after a DeleteExpense(id) that succeeded, GetExpensesByID(id)
\* finds no document exactly when at most one document carried id before the
\* deletion; when several did, it returns one of those that remain.
C6_DeleteThenFindAmended ==
    DeleteSucceeded =>
        LET r == FindOne(coll, last.arg)
        IN  /\ last.matched <= 1 => r.err = ErrNoDocuments /\ r.val = ZeroExpense
            /\ last.matched > 1 =>
                  /\ r.err = Nil
                  /\ r.val.ExpenseID = last.arg
                  /\ \E i \in 1..Len(coll) : r.val = Unmarshal(coll[i])

\* DeleteExpense has removed the only document of its id, others remain, and
\* the id is not found.
C6_Witness ==
    /\ DeleteSucceeded
    /\ last.matched = 1
    /\ coll # <<>>
    /\ FindOne(coll, last.arg).err = ErrNoDocuments

\* Lists of three transient expenses, dated on a millisecond.
TransientTriples ==
    {list \in ExpenseLists :
        /\ Len(list) = 3
        /\ \A i \in 1..3 : list[i].ID = NilObjectID /\ list[i].Date % TicksPerMs = 0}

\* C7: CreateManyExpenses of three transient expenses on an empty collection,
\* followed by GetAllIssues, returns without an error the three expenses, as
\* a set and up to their IDs.
C7_CreateManyThenFindAll ==
    [][\A p \in Procs : \A list \in TransientTriples :
          ( /\ coll = <<>>
            /\ pc[p] = "acquired"
            /\ acq[p].err = Nil
            /\ CreateManyExpenses(p, list, FALSE) )
          => LET r == AllIssues(coll', NoFault)
             IN  /\ r.err = Nil
                 /\ {Content(r.val[i]) : i \in 1..Len(r.val)}
                      = {Content(list[i]) : i \in 1..3}
      ]_vars

\* C8: on a healthy connection every CreateExpense of a transient expense
\* that reaches the server succeeds, and the documents of the collection have
\* pairwise distinct ids.
C8_TransientCreatesSucceed ==
    /\ ( /\ last.kind = "CreateExpense"
         /\ last.sent
         /\ last.err # CommandError
         /\ last.arg.ID = NilObjectID )
       => last.err = Nil
    /\ \A i, j \in 1..Len(coll) : i # j => coll[i]._id # coll[j]._id

\* C9: GetAllIssues on an empty collection returns an error and no issues,
\* ErrNoDocuments when the driver reported nothing; on a collection that is
\* not empty, the driver reporting nothing, it returns every document and no
\* error.
C9_FindAllEmptyIsNotFound ==
    (last.kind = "GetAllIssues" /\ last.sent) =>
        /\ coll = <<>> =>
              /\ last.err # Nil
              /\ last.val = <<>>
              /\ last.arg = "none" => last.err = ErrNoDocuments
        /\ (coll # <<>> /\ last.arg = "none") =>
              /\ last.err = Nil
              /\ last.val = [i \in 1..Len(coll) |-> Unmarshal(coll[i])]

\* GetAllIssues has returned ErrNoDocuments for the empty collection.
C9_Witness ==
    /\ last.kind = "GetAllIssues"
    /\ last.sent
    /\ last.arg = "none"
    /\ coll = <<>>
    /\ last.err = ErrNoDocuments

\* C10: a DeleteAll that succeeded leaves no document, and GetAllIssues after
\* it returns ErrNoDocuments.
C10_DeleteAllThenFindAll ==
    (last.kind = "DeleteAll" /\ last.sent /\ last.err = Nil) =>
        /\ coll = <<>>
        /\ AllIssues(coll, NoFault).err = ErrNoDocuments
        /\ AllIssues(coll, NoFault).val = <<>>

\* DeleteAll has succeeded on a collection of two documents.
C10_Witness ==
    /\ last.kind = "DeleteAll"
    /\ last.sent
    /\ last.err = Nil
    /\ last.matched = 2

\* A goroutine returns from DeleteExpense.
DeleteExpenseReturns(p) ==
    pc[p] = "acquired" /\ pc'[p] = "idle" /\ last'.kind = "DeleteExpense"

\* C11: DeleteExpense(code) leaves the collection as it was or removes from it
\* one document, whose expenseID is code; every other document, of the same
\* expenseID or of another, stays as it was and where it was.
C11_DeleteRemovesOneMatch ==
    [][\A p \in Procs :
          DeleteExpenseReturns(p) =>
              \/ coll' = coll
              \/ \E i \in 1..Len(coll) :
                    /\ coll[i].expenseID = last'.arg
                    /\ coll' = Remove(coll, i)
      ]_vars

\* DeleteExpense has succeeded on two documents of its expenseID, and one of
\* the two is still there.
C11_Witness ==
    /\ DeleteSucceeded
    /\ last.matched = 2
    /\ Len(coll) = 1
    /\ coll[1].expenseID = last.arg

\* C12: a DeleteExpense(code) whose GetMongoClient and DeleteOne reported no
\* error, no document carrying code, returns nil (not ErrNoDocuments) and
\* leaves the collection as it was.
C12_DeleteOfNoMatchSucceeds ==
    [][\A p \in Procs :
          ( /\ DeleteExpenseReturns(p)
            /\ acq[p].err = Nil
            /\ Matching(coll, last'.arg) = {}
            /\ last'.err # CommandError )
          => /\ last'.sent
             /\ last'.err = Nil
             /\ coll' = coll
      ]_vars

\* DeleteExpense has returned nil for an expenseID that no document of a
\* collection that is not empty carries.
C12_Witness ==
    /\ DeleteSucceeded
    /\ last.matched = 0
    /\ coll # <<>>
    /\ Matching(coll, last.arg) = {}

\* GetExpensesByID has returned and neither GetMongoClient nor the driver
\* reported a failure of its own.
FoundOrNot ==
    /\ last.kind = "GetExpensesByID"
    /\ last.sent
    /\ last.err \notin {CommandError, DecodeError}

\* C13: GetExpensesByID(id), no failure of the connection or of the driver
\* occurring, returns ErrNoDocuments exactly when no document carries the
\* expenseID id, and otherwise returns without an error a document of the
\* collection whose expenseID is id.
C13_FindByIDMatchesExactly ==
    FoundOrNot =>
        /\ last.err \in {Nil, ErrNoDocuments}
        /\ last.err = ErrNoDocuments <=> Matching(coll, last.arg) = {}
        /\ last.err = Nil =>
              /\ last.val.ExpenseID = last.arg
              /\ \E i \in 1..Len(coll) : last.val = Unmarshal(coll[i])

\* GetExpensesByID has returned the second document of the collection, the
\* first carrying another expenseID.
C13_Witness ==
    /\ FoundOrNot
    /\ last.err = Nil
    /\ Len(coll) = 2
    /\ coll[1].expenseID # last.arg
    /\ last.val = Unmarshal(coll[2])

\* C14: a GetAllIssues during which the driver reported a failure (of Find, of
\* cur.Next or of cur.Decode) returns that failure: never nil, and never
\* ErrNoDocuments.
C14_DriverFailuresReturned ==
    (last.kind = "GetAllIssues" /\ last.sent /\ last.arg # "none") =>
        last.err \in {CommandError, DecodeError}

(***************************************************************************)
(* Further properties of GetMongoClient.                                   *)
(***************************************************************************)

\* C15: a goroutine is past mongoOnce.Do, or has returned from GetMongoClient,
\* only when the one attempt has ended: nobody is inside the closure, done is
\* set, Connect and Ping were called, and what the goroutine returns is the
\* recorded client and error.
C15_NoReturnDuringInitialization ==
    \A p \in Procs :
        (pc[p] \in {"return", "acquired"} \/ acq[p] # NoAcq) =>
            /\ \A q \in Procs : ~Initializing(q)
            /\ mongoOnce.done
            /\ mongoOnce.m = 0
            /\ connectCalls = 1
            /\ pingCalls = 1
            /\ pc[p] = "acquired" => acq[p] = Recorded

\* A goroutine waits for the mutex of mongoOnce while another, past Connect
\* and Ping, has not yet left the closure.
C15_Witness ==
    \E p, q \in Procs :
        /\ p # q
        /\ pc[p] = "assign"
        /\ mongoOnce.m = p
        /\ pc[q] = "doSlow"
        /\ acq[q] = NoAcq

\* A goroutine is inside GetMongoClient.
InGetMongoClient(p) == pc[p] \in {"doSlow", "connect", "ping", "assign", "return"}

\* C16: under the fairness of FairSpec every goroutine that is inside
\* GetMongoClient, as the first caller or as a later one, comes to return
\* from it.
C16_EveryCallReturns ==
    \A p \in Procs : InGetMongoClient(p) ~> (pc[p] = "acquired")

\* C18: a call of GetMongoClient that returns a nil error returns a client
\* that is not nil, that is clientInstance, that mongo.Connect returned
\* without an error and whose Ping returned nil; this holds too for calls
\* made after the closure ended in a panic.
C18_SuccessMeansVerifiedClient ==
    \A p \in Procs :
        (pc[p] = "acquired" /\ acq[p].err = Nil) =>
            /\ acq[p].client # NilClient
            /\ acq[p].client = clientInstance
            /\ acq[p].client \in pinged
            /\ clientInstanceError = Nil

\* Two goroutines hold the client that was connected and pinged.
C18_Witness ==
    /\ \A p \in Procs : pc[p] = "acquired" /\ acq[p].err = Nil
    /\ clientInstance \in pinged

(***************************************************************************)
(* Further properties of the store operations.                             *)
(***************************************************************************)

\* C17: a GetExpensesByID that returns an error returns Expense{} with it, and
\* a GetAllIssues that returns an error returns an empty slice with it.
C17_FailedReadsReturnZeroValue ==
    /\ (last.kind = "GetExpensesByID" /\ last.err # Nil) => last.val = ZeroExpense
    /\ (last.kind = "GetAllIssues" /\ last.err # Nil) => last.val = <<>>

\* C19: when GetAllIssues returns, the cursor that a successful Find gave it
\* has been closed, whichever return statement it leaves by.
C19_CursorClosedOnReturn ==
    (last.kind = "GetAllIssues" /\ last.sent /\ last.arg # "find") =>
        last.cursor = "closed"

\* A goroutine returns from GetExpensesByID or from GetAllIssues.
ReadReturns(p) ==
    /\ pc[p] = "acquired"
    /\ pc'[p] = "idle"
    /\ last'.kind \in {"GetExpensesByID", "GetAllIssues"}

\* C20: GetExpensesByID and GetAllIssues leave the collection as it was,
\* whatever they return; and once mongoOnce is done no step of any operation
\* writes clientInstance or clientInstanceError.
C20_ReadsAndHandleFrame ==
    [][/\ \A p \in Procs : ReadReturns(p) => coll' = coll
       /\ mongoOnce.done =>
              /\ clientInstance' = clientInstance
              /\ clientInstanceError' = clientInstanceError
      ]_vars

\* GetAllIssues has failed to decode the second of two documents, and both
\* are still in the collection.
C20_Witness ==
    /\ mongoOnce.done
    /\ last.kind = "GetAllIssues"
    /\ last.err = DecodeError
    /\ Len(last.val) = 1
    /\ Len(coll) = 2

====
